---- MODULE Spec2Model ----
(***************************************************************************)
(* The colorization service of backend/app.py and the U-Net of             *)
(* backend/model.py.                                                       *)
(*                                                                         *)
(* Spec     the process: the module-level checkpoint load of app.py        *)
(*          (one step per statement that can raise or rebind process-wide  *)
(*          state), then the /colorize handler, split at its only          *)
(*          suspension point (await file.read()).                          *)
(* SpecFwd  ColorizationSDAEUNet.forward as a function of the shape of its *)
(*          input and of the module's training flag.                       *)
(*                                                                         *)
(* Tensors are modelled by their shapes (N, C, H, W); weights by the place *)
(* of the checkpoint they were read from.                                  *)
(***************************************************************************)
EXTENDS Integers, Sequences, FiniteSets, TLC

VARIABLES
    startup,        \* position of the module-level code of app.py (lines 28-55)
    ckptFile,       \* the file at MODEL_PATH, as torch.load finds it
    checkpoint,     \* the module-level name `checkpoint` (line 34)
    posixPath,      \* the class pathlib.PosixPath is bound to
    temp,           \* the module-level name `temp` (line 31)
    model,          \* the process-wide ColorizationSDAEUNet
    loadCalls,      \* the arguments of the load_state_dict calls made, in order
    globals,        \* the names bound in app.py's module namespace
    stdout,         \* what the load printed
    arrived,        \* number of /colorize requests received so far
    inflight,       \* per content type, the number of requests suspended at await file.read()
    last,           \* the request that finished last, with its response
    fwd             \* a direct call of ColorizationSDAEUNet.forward (SpecFwd)

vars == <<startup, ckptFile, checkpoint, posixPath, temp, model, loadCalls,
          globals, stdout, arrived, inflight, last, fwd>>

(***************************************************************************)
(* Bounds                                                                  *)
(***************************************************************************)
MaxRequests == 2    \* requests received in one run
MaxDim == 2         \* small image sides 1..MaxDim (beside the sides around IMAGE_SIZE)
MaxSide == 34       \* sides of the tensors handed to forward directly
MaxBatch == 2       \* batch sizes of the tensors handed to forward directly

(***************************************************************************)
(* Program constants                                                       *)
(***************************************************************************)
IMAGE_SIZE == 256
IN_CH == 1
OUT_CH == 2
BASE_CH == 64
POOL_K == 2

(***************************************************************************)
(* model.py: tensors (by shape) and the layers                             *)
(***************************************************************************)
T(n, c, h, w) == [ok |-> TRUE, n |-> n, c |-> c, h |-> h, w |-> w, err |-> ""]

Raise(e) == [ok |-> FALSE, n |-> 0, c |-> 0, h |-> 0, w |-> 0, err |-> e]

HW(x) == <<x.h, x.w>>

\* nn.Conv2d(in_ch, out_ch, kernel_size=k, padding=pad), stride 1
Conv2d(x, in_ch, out_ch, k, pad) ==
    IF ~x.ok THEN x
    ELSE IF x.c # in_ch THEN Raise("conv2d: channels")
    ELSE IF x.h + 2 * pad - k + 1 <= 0 \/ x.w + 2 * pad - k + 1 <= 0
         THEN Raise("conv2d: kernel larger than input")
    ELSE T(x.n, out_ch, x.h + 2 * pad - k + 1, x.w + 2 * pad - k + 1)

\* nn.BatchNorm2d(ch): in training mode the batch statistics need more than
\* one value per channel; in eval mode the running statistics are used.
BatchNorm2d(x, ch, training) ==
    IF ~x.ok THEN x
    ELSE IF x.c # ch THEN Raise("batch_norm: channels")
    ELSE IF training /\ x.n * x.h * x.w = 1
         THEN Raise("Expected more than 1 value per channel when training")
    ELSE x

ReLU(x) == x

ConvBlock(x, in_ch, out_ch, training) ==
    LET c1 == Conv2d(x, in_ch, out_ch, 3, 1)
        b1 == BatchNorm2d(c1, out_ch, training)
        r1 == ReLU(b1)
        c2 == Conv2d(r1, out_ch, out_ch, 3, 1)
        b2 == BatchNorm2d(c2, out_ch, training)
    IN  ReLU(b2)

PoolOut(s, k) == IF s < k THEN 0 ELSE (s - k) \div k + 1

\* nn.MaxPool2d(k): stride k, no padding, floor mode
MaxPool2d(x, k) ==
    IF ~x.ok THEN x
    ELSE IF PoolOut(x.h, k) <= 0 \/ PoolOut(x.w, k) <= 0
         THEN Raise("max_pool2d: Output size is too small")
    ELSE T(x.n, x.c, PoolOut(x.h, k), PoolOut(x.w, k))

\* nn.ConvTranspose2d(in_ch, out_ch, kernel_size=k, stride=s)
ConvTranspose2d(x, in_ch, out_ch, k, s) ==
    IF ~x.ok THEN x
    ELSE IF x.c # in_ch THEN Raise("conv_transpose2d: channels")
    ELSE T(x.n, out_ch, (x.h - 1) * s + k, (x.w - 1) * s + k)

\* The F.pad argument of UpBlock.forward: [left, right, top, bottom]
PadList_Floor(diff_x, diff_y) ==
    <<diff_x \div 2, diff_x \div 2, diff_y \div 2, diff_y \div 2>>

PadList(diff_x, diff_y) ==
    <<diff_x \div 2, diff_x - diff_x \div 2,
      diff_y \div 2, diff_y - diff_y \div 2>>

UpBlockPad(x, skip) == PadList(skip.w - x.w, skip.h - x.h)

\* F.pad(x, [left, right, top, bottom]): a negative amount crops
Pad(x, p) ==
    IF ~x.ok THEN x
    ELSE IF x.w + p[1] + p[2] < 0 \/ x.h + p[3] + p[4] < 0
         THEN Raise("pad: negative output size")
    ELSE T(x.n, x.c, x.h + p[3] + p[4], x.w + p[1] + p[2])

\* torch.cat([a, b], dim=1)
Cat(a, b) ==
    IF ~a.ok THEN a
    ELSE IF ~b.ok THEN b
    ELSE IF a.n # b.n \/ a.h # b.h \/ a.w # b.w
         THEN Raise("cat: Sizes of tensors must match except in dimension 1")
    ELSE T(a.n, a.c + b.c, a.h, a.w)

\* UpBlock.forward, lines 33-37: the upsampled tensor u as it is handed to
\* torch.cat
AlignToSkip_NoPad(u, skip) == u

AlignToSkip(u, skip) ==
    IF u.ok /\ skip.ok /\ HW(u) # HW(skip)
    THEN Pad(u, UpBlockPad(u, skip))
    ELSE u

UpBlock(x, skip, in_ch, out_ch, training) ==
    ConvBlock(Cat(skip, AlignToSkip(ConvTranspose2d(x, in_ch, out_ch, 2, 2), skip)),
              out_ch * 2, out_ch, training)

\* What one decoder stage did with the upsampled tensor u: the sizes of u and
\* of the skip tensor, the padding applied, and the size handed to torch.cat
StageOf(u, skip) ==
    [ran    |-> u.ok /\ skip.ok,
     up     |-> HW(u),
     skip   |-> HW(skip),
     pad    |-> IF u.ok /\ skip.ok /\ HW(u) # HW(skip)
                THEN UpBlockPad(u, skip) ELSE <<0, 0, 0, 0>>,
     padded |-> HW(AlignToSkip(u, skip)),
     cat    |-> Cat(skip, AlignToSkip(u, skip)).ok]

UpStage(x, skip, in_ch, out_ch) ==
    StageOf(ConvTranspose2d(x, in_ch, out_ch, 2, 2), skip)

\* ColorizationSDAEUNet.forward: its local variables
Forward(x, training) ==
    LET e1 == ConvBlock(x, IN_CH, BASE_CH, training)
        p1 == MaxPool2d(e1, POOL_K)
        e2 == ConvBlock(p1, BASE_CH, BASE_CH * 2, training)
        p2 == MaxPool2d(e2, POOL_K)
        e3 == ConvBlock(p2, BASE_CH * 2, BASE_CH * 4, training)
        p3 == MaxPool2d(e3, POOL_K)
        e4 == ConvBlock(p3, BASE_CH * 4, BASE_CH * 8, training)
        p4 == MaxPool2d(e4, POOL_K)
        b  == ConvBlock(p4, BASE_CH * 8, BASE_CH * 16, training)
        d4 == UpBlock(b, e4, BASE_CH * 16, BASE_CH * 8, training)
        d3 == UpBlock(d4, e3, BASE_CH * 8, BASE_CH * 4, training)
        d2 == UpBlock(d3, e2, BASE_CH * 4, BASE_CH * 2, training)
        d1 == UpBlock(d2, e1, BASE_CH * 2, BASE_CH, training)
    IN  [out    |-> Conv2d(d1, BASE_CH, OUT_CH, 1, 0),
         stages |-> <<UpStage(b, e4, BASE_CH * 16, BASE_CH * 8),
                      UpStage(d4, e3, BASE_CH * 8, BASE_CH * 4),
                      UpStage(d3, e2, BASE_CH * 4, BASE_CH * 2),
                      UpStage(d2, e1, BASE_CH * 2, BASE_CH)>>]

\* lab_denormalize: the shape (N, H, W, 3) of the stacked RGB arrays
LabDenormalize(L, ab) ==
    LET lab == Cat(L, ab)       \* np.concatenate([L_denorm, ab_denorm], axis=1)
    IN  IF ~lab.ok THEN lab
        ELSE IF lab.c # 3 THEN Raise("cvtColor: 3 channels expected")
        ELSE IF lab.n = 0 THEN Raise("np.stack: need at least one array")
        ELSE T(lab.n, 3, lab.h, lab.w)

(***************************************************************************)
(* app.py: the checkpoint load                                             *)
(***************************************************************************)
Keys == {"model_state", "model_state_dict", "state_dict"}

WholeCheckpoint == "<checkpoint>"

\* The file at MODEL_PATH: absent, unreadable by torch.load, an object that
\* is no container (`in` raises), or a dict holding some of the keys
CkptFiles ==
    {[kind |-> k, present |-> {}] : k \in {"missing", "unreadable", "notmapping"}}
    \cup {[kind |-> "dict", present |-> p] : p \in SUBSET Keys}

Unbound == [kind |-> "unbound", present |-> {}]

\* Lines 40-48: the argument of load_state_dict
SelectStateDict_Reversed(ckpt) ==
    IF "state_dict" \in ckpt.present THEN "state_dict"
    ELSE IF "model_state_dict" \in ckpt.present THEN "model_state_dict"
    ELSE IF "model_state" \in ckpt.present THEN "model_state"
    ELSE WholeCheckpoint

SelectStateDict(ckpt) ==
    IF "model_state" \in ckpt.present THEN "model_state"
    ELSE IF "model_state_dict" \in ckpt.present THEN "model_state_dict"
    ELSE IF "state_dict" \in ckpt.present THEN "state_dict"
    ELSE WholeCheckpoint

\* Line 28: a fresh nn.Module is in training mode, its weights random
NewModel == [weights |-> "random", training |-> TRUE, running_stats |-> 0]

\* Lines 57 and 74-75, run once the try statement is left
DefineHandlers(g) == g \cup {"preprocess_image", "colorize"}

\* Lines 31-32
SwapPosixPath ==
    /\ startup = "swap"
    /\ temp' = posixPath
    /\ posixPath' = "WindowsPath"
    /\ globals' = globals \cup {"temp"}
    /\ startup' = "torch_load"
    /\ UNCHANGED <<ckptFile, checkpoint, model, loadCalls, stdout,
                   arrived, inflight, last, fwd>>

\* Line 34
TorchLoad ==
    /\ startup = "torch_load"
    /\ CASE ckptFile.kind = "missing" ->
              /\ startup' = "except_FileNotFoundError"
              /\ UNCHANGED <<checkpoint, globals>>
         [] ckptFile.kind = "unreadable" ->
              /\ startup' = "except_Exception"
              /\ UNCHANGED <<checkpoint, globals>>
         [] OTHER ->
              /\ checkpoint' = ckptFile
              /\ globals' = globals \cup {"checkpoint"}
              /\ startup' = "restore"
    /\ UNCHANGED <<ckptFile, posixPath, temp, model, loadCalls, stdout,
                   arrived, inflight, last, fwd>>

\* Line 37
RestorePosixPath ==
    /\ startup = "restore"
    /\ posixPath' = temp
    /\ startup' = "load_state_dict"
    /\ UNCHANGED <<ckptFile, checkpoint, temp, model, loadCalls, globals,
                   stdout, arrived, inflight, last, fwd>>

\* Lines 40-48. load_state_dict raises on a mapping that does not fit the
\* model, after copying the entries that do fit.
LoadStateDict ==
    /\ startup = "load_state_dict"
    /\ IF checkpoint.kind = "notmapping"
       THEN /\ startup' = "except_Exception"
            /\ UNCHANGED <<model, loadCalls>>
       ELSE LET sd == SelectStateDict(checkpoint) IN
            /\ loadCalls' = Append(loadCalls, sd)
            /\ \E fits \in BOOLEAN :
                 IF fits
                 THEN /\ model' = [model EXCEPT !.weights = sd]
                      /\ startup' = "eval"
                 ELSE /\ \E w \in {"random", "partial"} :
                            model' = [model EXCEPT !.weights = w]
                      /\ startup' = "except_Exception"
    /\ UNCHANGED <<ckptFile, checkpoint, posixPath, temp, globals, stdout,
                   arrived, inflight, last, fwd>>

\* Lines 50-51
ModelEval ==
    /\ startup = "eval"
    /\ model' = [model EXCEPT !.training = FALSE]
    /\ stdout' = Append(stdout, "Model loaded successfully")
    /\ globals' = DefineHandlers(globals)
    /\ startup' = "serving"
    /\ UNCHANGED <<ckptFile, checkpoint, posixPath, temp, loadCalls,
                   arrived, inflight, last, fwd>>

\* Lines 52-53
ExceptFileNotFound ==
    /\ startup = "except_FileNotFoundError"
    /\ stdout' = Append(stdout, "WARNING: Model file not found")
    /\ globals' = DefineHandlers(globals)
    /\ startup' = "serving"
    /\ UNCHANGED <<ckptFile, checkpoint, posixPath, temp, model, loadCalls,
                   arrived, inflight, last, fwd>>

\* Lines 54-55: `e` is bound for the clause only
ExceptException ==
    /\ startup = "except_Exception"
    /\ stdout' = Append(stdout, "ERROR loading model")
    /\ globals' = DefineHandlers((globals \cup {"e"}) \ {"e"})
    /\ startup' = "serving"
    /\ UNCHANGED <<ckptFile, checkpoint, posixPath, temp, model, loadCalls,
                   arrived, inflight, last, fwd>>

(***************************************************************************)
(* app.py: the /colorize handler                                           *)
(***************************************************************************)
\* UploadFile.content_type: None, or a string (a sequence of characters)
None == [none |-> TRUE, str |-> <<>>]

Str(s) == [none |-> FALSE, str |-> s]

ImagePrefix == <<"i", "m", "a", "g", "e", "/">>

ContentTypes ==
    {None,
     Str(<<>>),
     Str(<<"t", "e", "x", "t", "/", "p", "l", "a", "i", "n">>),
     Str(<<"i", "m", "a", "g", "e">>),
     Str(ImagePrefix \o <<"p", "n", "g">>)}

\* str.startswith
StartsWith(s, prefix) ==
    /\ Len(s) >= Len(prefix)
    /\ SubSeq(s, 1, Len(prefix)) = prefix

\* Line 76: the attribute lookup on None raises AttributeError, outside the
\* try statement
ContentTypeCheck(ct) ==
    IF ct.none THEN "AttributeError"
    ELSE IF ~StartsWith(ct.str, ImagePrefix) THEN "reject"
    ELSE "pass"

\* The uploaded bytes: an image of size (W, H), or bytes PIL cannot decode
Sides == (1 .. MaxDim) \cup {IMAGE_SIZE + 1}

Undecodable == [decodable |-> FALSE, size |-> <<0, 0>>]

Images == {Undecodable} \cup {[decodable |-> TRUE, size |-> <<w, h>>] : w, h \in Sides}

\* The core step at which the environment makes an exception rise (a failed
\* read, a device error, an allocation failure, ...)
Faults == {"none", "read", "model", "lab_denormalize", "resize", "save"}

\* Image.resize(size, LANCZOS).size
ImageResize(size, to) == to

\* preprocess_image
PreprocessImage_SizeAfterResize(image) ==
    IF ~image.decodable
    THEN [ok |-> FALSE, L_tensor |-> Raise("cannot identify image file"),
          original_size |-> <<0, 0>>]
    ELSE LET img == ImageResize(image.size, <<IMAGE_SIZE, IMAGE_SIZE>>)
         IN  [ok |-> TRUE, L_tensor |-> T(1, 1, img[2], img[1]),
              original_size |-> img]

PreprocessImage(image) ==
    IF ~image.decodable
    THEN [ok |-> FALSE, L_tensor |-> Raise("cannot identify image file"),
          original_size |-> <<0, 0>>]
    ELSE LET original_size == image.size
             img == ImageResize(image.size, <<IMAGE_SIZE, IMAGE_SIZE>>)
             \* np.asarray(img): (H, W, 3); L: (H, W, 1); permute, unsqueeze
         IN  [ok |-> TRUE, L_tensor |-> T(1, 1, img[2], img[1]),
              original_size |-> original_size]

Response(status, media_type, size, detail) ==
    [status |-> status, media_type |-> media_type, size |-> size, detail |-> detail]

\* Line 77
Rejected ==
    [steps |-> <<>>, responses |-> <<Response(400, "application/json", <<0, 0>>,
                                              "File must be an image")>>,
     unhandled |-> FALSE]

\* An exception that leaves the handler: the server answers 500 itself
Unhandled(steps, e) ==
    [steps |-> steps, responses |-> <<Response(500, "text/plain", <<0, 0>>,
                                               "Internal Server Error")>>,
     unhandled |-> TRUE]

\* Line 102
Succeeded(steps, size) ==
    [steps |-> steps, responses |-> <<Response(200, "image/png", size, "")>>,
     unhandled |-> FALSE]

\* Lines 104-107: except Exception catches every failure of the try body
CoreFailed_Propagates(steps, e) == Unhandled(steps, e)

CoreFailed(steps, e) ==
    [steps |-> steps, responses |-> <<Response(500, "application/json", <<0, 0>>, e)>>,
     unhandled |-> FALSE]

\* The forward pass at the service's resolution, computed once per mode: every
\* L_tensor preprocess_image returns has this shape
ServiceInput == T(1, IN_CH, IMAGE_SIZE, IMAGE_SIZE)

ServiceForward == [training \in BOOLEAN |-> Forward(ServiceInput, training).out]

\* Line 86: model(L_tensor)
ModelCall(x, training) ==
    IF x = ServiceInput THEN ServiceForward[training]
    ELSE Forward(x, training).out

\* The core steps of the try statement, in the order they run
CoreSteps == <<"read", "preprocess_image", "model", "lab_denormalize", "resize", "save">>

Upto(k) == SubSeq(CoreSteps, 1, k)

\* Lines 90-102: rgb_out[0] -> Image.fromarray -> resize(original_size) -> save
Postprocess(pre, rgb_out, fault) ==
    IF ~rgb_out.ok THEN CoreFailed(Upto(4), rgb_out.err)
    ELSE IF fault = "resize" THEN CoreFailed(Upto(5), "resize: injected fault")
    ELSE IF fault = "save" THEN CoreFailed(Upto(6), "save: injected fault")
    ELSE Succeeded(Upto(6), ImageResize(<<rgb_out.w, rgb_out.h>>, pre.original_size))

\* Lines 88-102
Denormalize(pre, ab_pred, fault) ==
    IF ~ab_pred.ok THEN CoreFailed(Upto(3), ab_pred.err)
    ELSE IF fault = "lab_denormalize"
         THEN CoreFailed(Upto(4), "lab_denormalize: injected fault")
    ELSE Postprocess(pre, LabDenormalize(pre.L_tensor, ab_pred), fault)

\* Lines 82-102
Predict(pre, fault, training) ==
    IF ~pre.ok THEN CoreFailed(Upto(2), pre.L_tensor.err)
    ELSE IF fault = "model" THEN CoreFailed(Upto(3), "model: injected fault")
    ELSE Denormalize(pre, ModelCall(pre.L_tensor, training), fault)

\* Lines 79-107: the try statement, from the completed read on
CoreRun(image, fault, training) ==
    IF fault = "read" THEN CoreFailed(Upto(1), "read: injected fault")
    ELSE Predict(PreprocessImage(image), fault, training)

InSeq(x, s) == \E i \in 1 .. Len(s) : s[i] = x

NoRequest ==
    [finished |-> FALSE, content_type |-> None, image |-> Undecodable,
     fault |-> "none", steps |-> <<>>, responses |-> <<>>, unhandled |-> FALSE,
     norm_stats |-> "none"]

Finished(ct, image, fault, res, norm) ==
    [finished |-> TRUE, content_type |-> ct, image |-> image, fault |-> fault,
     steps |-> res.steps, responses |-> res.responses,
     unhandled |-> res.unhandled, norm_stats |-> norm]

\* Lines 75-80: a request arrives; the handler runs up to await file.read()
Arrive ==
    /\ startup = "serving"
    /\ arrived < MaxRequests
    /\ arrived' = arrived + 1
    /\ \E ct \in ContentTypes :
         LET chk == ContentTypeCheck(ct) IN
         CASE chk = "AttributeError" ->
                /\ last' = Finished(ct, Undecodable, "none",
                                    Unhandled(<<>>, "AttributeError"), "none")
                /\ UNCHANGED inflight
           [] chk = "reject" ->
                /\ last' = Finished(ct, Undecodable, "none", Rejected, "none")
                /\ UNCHANGED inflight
           [] OTHER ->
                /\ inflight' = [inflight EXCEPT ![ct] = @ + 1]
                /\ UNCHANGED last
    /\ UNCHANGED <<startup, ckptFile, checkpoint, posixPath, temp, model,
                   loadCalls, globals, stdout, fwd>>

\* Lines 80-107: the read completes and the handler runs to its response.
\* A forward pass in training mode updates the BatchNorm running statistics,
\* torch.no_grad() or not; one that fails midway may have updated some already.
Complete ==
    /\ startup = "serving"
    /\ \E ct \in {c \in ContentTypes : inflight[c] > 0} :
       \E image \in Images, fault \in Faults, partial \in BOOLEAN :
         /\ fault = "read" => image = Undecodable
         /\ ~image.decodable => fault \in {"none", "read"}
         /\ ~(fault = "model" /\ model.training) => ~partial
         /\ LET res      == CoreRun(image, fault, model.training)
                reached  == InSeq("model", res.steps)
                finished == InSeq("lab_denormalize", res.steps)
                updates  == model.training /\ reached /\ (finished \/ partial)
            IN  /\ last' = Finished(ct, image, fault, res,
                                    IF ~reached THEN "none"
                                    ELSE IF model.training THEN "batch"
                                    ELSE "running")
                /\ model' = IF updates
                            THEN [model EXCEPT !.running_stats = @ + 1]
                            ELSE model
         /\ inflight' = [inflight EXCEPT ![ct] = @ - 1]
    /\ UNCHANGED <<startup, ckptFile, checkpoint, posixPath, temp, loadCalls,
                   globals, stdout, arrived, fwd>>

(***************************************************************************)
(* The process                                                             *)
(***************************************************************************)
NoCall == [n |-> 0, h |-> 0, w |-> 0, training |-> FALSE, done |-> FALSE,
           out |-> Raise(""), stages |-> <<>>]

Init ==
    /\ startup = "swap"
    /\ ckptFile \in CkptFiles
    /\ checkpoint = Unbound
    /\ posixPath = "PosixPath"
    /\ temp = "unbound"
    /\ model = NewModel
    /\ loadCalls = <<>>
    /\ globals = {"app", "DEVICE", "MODEL_PATH", "IMAGE_SIZE", "model"}
    /\ stdout = <<>>
    /\ arrived = 0
    /\ inflight = [c \in ContentTypes |-> 0]
    /\ last = NoRequest
    /\ fwd = NoCall

Next ==
    \/ SwapPosixPath
    \/ TorchLoad
    \/ RestorePosixPath
    \/ LoadStateDict
    \/ ModelEval
    \/ ExceptFileNotFound
    \/ ExceptException
    \/ Arrive
    \/ Complete

Spec == Init /\ [][Next]_vars

(***************************************************************************)
(* forward called directly                                                 *)
(***************************************************************************)
InitFwd ==
    /\ startup = "swap"
    /\ ckptFile = [kind |-> "missing", present |-> {}]
    /\ checkpoint = Unbound
    /\ posixPath = "PosixPath"
    /\ temp = "unbound"
    /\ model = NewModel
    /\ loadCalls = <<>>
    /\ globals = {"app", "DEVICE", "MODEL_PATH", "IMAGE_SIZE", "model"}
    /\ stdout = <<>>
    /\ arrived = 0
    /\ inflight = [c \in ContentTypes |-> 0]
    /\ last = NoRequest
    /\ \E n \in 1 .. MaxBatch, h, w \in 1 .. MaxSide, training \in BOOLEAN :
         fwd = [NoCall EXCEPT !.n = n, !.h = h, !.w = w, !.training = training]

\* model(x) on a tensor of shape (n, IN_CH, h, w)
CallForward ==
    /\ ~fwd.done
    /\ LET r == Forward(T(fwd.n, IN_CH, fwd.h, fwd.w), fwd.training)
       IN  fwd' = [fwd EXCEPT !.done = TRUE, !.out = r.out, !.stages = r.stages]
    /\ UNCHANGED <<startup, ckptFile, checkpoint, posixPath, temp, model,
                   loadCalls, globals, stdout, arrived, inflight, last>>

NextFwd == CallForward

SpecFwd == InitFwd /\ [][NextFwd]_vars

(***************************************************************************)
(* Properties                                                              *)
(***************************************************************************)
Answered == last.finished /\ Len(last.responses) = 1

Loaded == stdout = <<"Model loaded successfully">>

NonImage(ct) == ct.none \/ ~StartsWith(ct.str, ImagePrefix)

\* The encoder pools four times: the network's downsampling factor
DownFactor == POOL_K * POOL_K * POOL_K * POOL_K

\* C1: a successful colorize request returns an image whose size is exactly
\* the size (W, H) of the uploaded image, whatever W and H are.
C1_OutputSizeIsInputSize ==
    (Answered /\ last.responses[1].status = 200)
        => /\ last.image.decodable
           /\ last.responses[1].size = last.image.size
           /\ last.responses[1].media_type = "image/png"

C1_Witness ==
    /\ Answered
    /\ last.responses[1].status = 200
    /\ last.image.size = <<1, IMAGE_SIZE + 1>>
    /\ last.responses[1].size = <<1, IMAGE_SIZE + 1>>

\* C2: whatever the outcome of the checkpoint load, the model is in inference
\* mode when predict runs: the forward pass of every request normalizes with
\* the frozen running statistics.
C2_InferenceModeWhenPredictRuns ==
    (last.finished /\ InSeq("model", last.steps)) => last.norm_stats = "running"

\* C3: once startup is over, no request changes the model's parameters
\* (weights and BatchNorm running statistics).
C3_ParametersFrozenAfterStartup ==
    [][startup = "serving"
         => /\ model'.weights = model.weights
            /\ model'.running_stats = model.running_stats]_vars

\* The module-level names a startup that loaded the checkpoint leaves bound
NamesBoundWhenLoaded ==
    {"app", "DEVICE", "MODEL_PATH", "IMAGE_SIZE", "model", "temp", "checkpoint",
     "preprocess_image", "colorize"}

\* C4: when the checkpoint is absent or its load fails, startup ends in the
\* serving state with the failure explicitly flagged where a caller can see
\* it: the failed load leaves a binding that a successful load does not.
C4_NotLoadedIsFlagged ==
    (startup = "serving" /\ ~Loaded) => (globals \ NamesBoundWhenLoaded) # {}

KeyPriority == <<"model_state", "model_state_dict", "state_dict">>

\* C5: the loader hands load_state_dict the mapping under the first key of
\* "model_state", "model_state_dict", "state_dict" that the checkpoint holds,
\* the checkpoint itself when it holds none; load_state_dict is called at most
\* once, and a load that succeeded left exactly that mapping in the model.
C5_PriorityOrder ==
    /\ Len(loadCalls) <= 1
    /\ Len(loadCalls) = 1 =>
         \/ /\ loadCalls[1] = WholeCheckpoint
            /\ checkpoint.present = {}
         \/ \E i \in 1 .. Len(KeyPriority) :
              /\ loadCalls[1] = KeyPriority[i]
              /\ KeyPriority[i] \in checkpoint.present
              /\ \A j \in 1 .. (i - 1) : KeyPriority[j] \notin checkpoint.present
    /\ (startup = "serving" /\ Loaded) =>
         /\ Len(loadCalls) = 1
         /\ model.weights = loadCalls[1]

C5_Witness ==
    /\ startup = "serving"
    /\ Loaded
    /\ checkpoint.present = {"model_state_dict", "state_dict"}
    /\ model.weights = "model_state_dict"

\* C6 (as claimed): for every input of spatial size (H, W), H, W >= 1, forward
\* raises nothing, every decoder stage concatenates tensors of equal size,
\* and the output has OUT_CH channels and spatial size (H, W).
C6_ForwardNeverRaises ==
    fwd.done =>
        /\ fwd.out = T(fwd.n, OUT_CH, fwd.h, fwd.w)
        /\ \A i \in 1 .. Len(fwd.stages) :
             fwd.stages[i].ran /\ fwd.stages[i].padded = fwd.stages[i].skip

\* forward raises on these inputs: a side below the downsampling factor is
\* pooled to nothing; in training mode a bottleneck of one value per channel
\* is refused by BatchNorm
ForwardRaises ==
    \/ fwd.h < DownFactor
    \/ fwd.w < DownFactor
    \/ /\ fwd.training
       /\ fwd.n = 1
       /\ fwd.h < 2 * DownFactor
       /\ fwd.w < 2 * DownFactor

\* C6 (amended): forward raises exactly on the inputs of ForwardRaises; on
\* every other input, divisible by 16 or not, each of the 4 decoder stages
\* concatenates an upsampled tensor of the skip tensor's size and the output
\* has OUT_CH channels and spatial size (H, W).
C6_ForwardShape ==
    fwd.done =>
        /\ fwd.out.ok <=> ~ForwardRaises
        /\ fwd.out.ok =>
             /\ fwd.out = T(fwd.n, OUT_CH, fwd.h, fwd.w)
             /\ Len(fwd.stages) = 4
             /\ \A i \in 1 .. 4 :
                  /\ fwd.stages[i].ran
                  /\ fwd.stages[i].padded = fwd.stages[i].skip
                  /\ fwd.stages[i].cat

C6_Witness ==
    /\ fwd.done
    /\ fwd.out.ok
    /\ fwd.h % DownFactor # 0
    /\ fwd.w % DownFactor # 0
    /\ fwd.h # fwd.w
    /\ fwd.out = T(fwd.n, OUT_CH, fwd.h, fwd.w)

Padded(i) == fwd.stages[i].ran /\ fwd.stages[i].up # fwd.stages[i].skip

\* C9 (as claimed): a decoder stage whose upsampled tensor differs in size
\* from the skip tensor pads it by the same amount before and after on each
\* axis, up to the skip tensor's size.
C9_SymmetricPadding ==
    fwd.done =>
        \A i \in 1 .. Len(fwd.stages) :
            Padded(i) =>
                /\ fwd.stages[i].pad[1] = fwd.stages[i].pad[2]
                /\ fwd.stages[i].pad[3] = fwd.stages[i].pad[4]
                /\ fwd.stages[i].padded = fwd.stages[i].skip

\* C9 (amended): such a stage pads the upsampled tensor up to the skip
\* tensor's size with floor(d/2) before and d - floor(d/2) after on each axis,
\* d the difference on that axis; the encoder's 2x2 pooling makes d 0 or 1, so
\* the padding is none before and d after.
C9_PadsToSkipSize ==
    fwd.done =>
        \A i \in 1 .. Len(fwd.stages) :
            Padded(i) =>
                LET st == fwd.stages[i]
                    dy == st.skip[1] - st.up[1]
                    dx == st.skip[2] - st.up[2]
                IN  /\ st.padded = st.skip
                    /\ st.cat
                    /\ dx \in {0, 1} /\ dy \in {0, 1}
                    /\ st.pad = <<0, dx, 0, dy>>

C9_Witness ==
    /\ fwd.done
    /\ fwd.out.ok
    /\ \E i \in 1 .. Len(fwd.stages) :
         /\ Padded(i)
         /\ fwd.stages[i].pad = <<0, 1, 0, 1>>
         /\ fwd.stages[i].padded = fwd.stages[i].skip

\* C7: a request whose content type does not begin with "image/", a request
\* without content type included, is answered 400 and no core step runs.
C7_NonImageRejected ==
    (last.finished /\ NonImage(last.content_type))
        => /\ Len(last.responses) = 1
           /\ last.responses[1].status = 400
           /\ ~last.unhandled
           /\ last.steps = <<>>

\* C8: a request that passed the content-type check and one of whose core
\* steps failed is answered by exactly one response, a 500 carrying the
\* failure's message; the exception does not leave the handler.
C8_CoreFailureIs500 ==
    (last.finished /\ ~NonImage(last.content_type)
        /\ (last.fault # "none" \/ ~last.image.decodable))
        => /\ Len(last.responses) = 1
           /\ last.responses[1].status = 500
           /\ last.responses[1].media_type = "application/json"
           /\ ~last.unhandled

C8_Witness ==
    /\ Answered
    /\ last.fault = "save"
    /\ last.steps = CoreSteps
    /\ last.responses[1].status = 500

\* C10: when startup is over, pathlib.PosixPath is the class it was before,
\* whether the checkpoint loaded, was missing or failed to load.
C10_PosixPathRestored ==
    startup = "serving" => posixPath = "PosixPath"

====
